---- MODULE Spec2Model ----
(***************************************************************************)
(* State-machine model of the BayBE campaign object (baybe/core.py):       *)
(* the measurement database, the batch and fit counters and the            *)
(* recommendation cache, driven by add_results and recommend.              *)
(*                                                                         *)
(* A pandas table is modelled by its column dtype kinds and its rows; a    *)
(* cell is a string token, "NaN" being the missing value.                  *)
(***************************************************************************)
EXTENDS Integers, Sequences, FiniteSets, TLC

(* ---------------------------------------------------------------- bounds *)
MaxBatches == 2
MaxFits == 2
MaxRows == 1
MaxQuantity == 2
MaxRowsChecked == 1
MaxRowsAppended == 2

(* ------------------------------------------------- campaign declaration *)
\* objective.targets, in declaration order
Targets == <<"Target_max", "Target_min">>
\* searchspace.parameters, in declaration order
Parameters == <<"Categorical_1", "Num_disc_1">>
\* Parameter.is_numeric
is_numeric(p) == p = "Num_disc_1"

Range(s) == {s[i] : i \in DOMAIN s}
Columns == Range(Targets) \cup Range(Parameters)

NaN == "NaN"
Placeholder == "<Enter value>"
\* FitNr of a row no fit has incorporated yet (np.nan)
FitNrNaN == 0

\* dtype kinds of a pandas column; NumericKinds is the literal "iufb"
Kinds == {"i", "u", "f", "b", "O"}
NumericKinds == {"i", "u", "f", "b"}

\* integer, unsigned and boolean columns cannot hold a missing value
WellFormed(data) ==
    \A c \in Columns :
        data.kind[c] \in {"i", "u", "b"} =>
            \A i \in DOMAIN data.rows : data.rows[i][c] # NaN

(* ------------------------------------------------------------ validation *)
OK == [status |-> "ok", column |-> "none"]
Err(s, c) == [status |-> s, column |-> c]

isna_any(data, c) == \E i \in DOMAIN data.rows : data.rows[i][c] = NaN

\* mutant: the dtype check runs before the missing-value check
CheckTargetKindFirst(data, c) ==
    IF data.kind[c] \notin NumericKinds THEN Err("TypeError", c)
    ELSE IF isna_any(data, c) THEN Err("ValueError", c)
    ELSE OK

CheckTarget(data, c) ==
    IF isna_any(data, c) THEN Err("ValueError", c)
    ELSE IF data.kind[c] \notin NumericKinds THEN Err("TypeError", c)
    ELSE OK

\* mutant: the dtype check ignores is_numeric
CheckParamAlwaysNumeric(data, c) ==
    IF isna_any(data, c) THEN Err("ValueError", c)
    ELSE IF data.kind[c] \notin NumericKinds THEN Err("TypeError", c)
    ELSE OK

CheckParam(data, c) ==
    IF isna_any(data, c) THEN Err("ValueError", c)
    ELSE IF is_numeric(c) /\ data.kind[c] \notin NumericKinds
         THEN Err("TypeError", c)
    ELSE OK

\* the first raise met by the two loops: targets first, then parameters
RECURSIVE FirstError(_, _, _)
FirstError(data, cols, i) ==
    IF i > Len(cols) THEN OK
    ELSE LET r == IF i <= Len(Targets) THEN CheckTarget(data, cols[i])
                  ELSE CheckParam(data, cols[i])
         IN IF r.status # "ok" THEN r ELSE FirstError(data, cols, i + 1)

Validate(data) == FirstError(data, Targets \o Parameters, 1)

(* ----------------------------------------------------------- collaborators *)
\* the discrete search space: the candidate points in experimental representation
Candidates ==
    { [c \in Range(Parameters) |->
          IF c = "Num_disc_1" THEN v ELSE "1"] : v \in {"1", "2"} }

\* Strategy.recommend: some batch of batch_quantity candidate rows
StrategyRecommend(train_x, train_y, batch_quantity) ==
    [1..batch_quantity -> Candidates]

\* SearchSpace.transform / Objective.transform: one computational row per
\* measurement row
Project(rows, cols) ==
    [i \in DOMAIN rows |-> [c \in cols |-> rows[i].vals[c]]]

\* SubspaceDiscrete.mark_as_measured: the candidates matched by the data
mark_as_measured(measured, data) ==
    measured \cup
      { cand \in Candidates :
          \E i \in DOMAIN data.rows :
              \A c \in Range(Parameters) : data.rows[i][c] = cand[c] }

(* ------------------------------------------------------------------ state *)
VARIABLES
    measurements_exp,       \* the measurement database: rows tagged BatchNr, FitNr
    batches_done,           \* number of batches added
    fits_done,              \* number of fit cycles
    cached_recommendation,  \* the recommendation cache (rows; empty = no cache)
    was_measured,           \* search-space metadata: candidates marked as measured
    aliased,                \* the caller holds the cache object itself (line 156)
    hist,                   \* the outcomes of the last two calls, oldest first
    meta,                   \* a meta-recommender: configuration, position, calls
    custom,                 \* a custom-architecture registration and its adapter
    surrogate,              \* a surrogate object: its fields and its last call
    view                    \* the last derived view a caller has read

vars == <<measurements_exp, batches_done, fits_done, cached_recommendation,
          was_measured, aliased, hist, meta, custom, surrogate, view>>

campaign == <<measurements_exp, batches_done, fits_done, cached_recommendation,
              was_measured>>

\* the outcome of one call as its caller sees it: the operation, its
\* batch_quantity (recommend) or the number of cached rows it dropped
\* (add_results), the error raised and the column it names, the table
\* returned, whether the strategy was invoked and on how many training rows,
\* and the table passed in (add_results)
\* an empty table
NoData == [kind |-> [c \in Columns |-> "O"], rows |-> <<>>]

Event(op, n, res, table, invoked, train) ==
    [op |-> op, n |-> n, status |-> res.status, column |-> res.column,
     table |-> table, invoked |-> invoked, train |-> train, data |-> NoData]

\* the event of an add_results call also keeps the table it was given
DataEvent(n, res, data) ==
    [Event("add_results", n, res, <<>>, FALSE, 0) EXCEPT !.data = data]

NoEvent == Event("none", 0, OK, <<>>, FALSE, 0)

\* of the call before the last one only the operation, its argument and its
\* status are kept
Summary(e) == [e EXCEPT !.column = "none", !.table = <<>>,
                        !.invoked = FALSE, !.train = 0, !.data = NoData]

Push(e) == <<Summary(hist[2]), e>>

Last == hist[2]
Prev == hist[1]

(* ------------------------------------------------------- meta-recommenders *)
\* the meta-recommender classes are used by the fixtures of conftest.py and are
\* not part of the sources; they are modelled from the specification (4.4)
MaxCalls == 3
MaxTrain == 3
MaxSwitchAfter == 2

Min(a, b) == IF a < b THEN a ELSE b

\* the two pure recommenders of the fixtures (conftest.py 568-624)
A == "RandomRecommender"
B == "SequentialGreedyRecommender"

NoRecommendersLeftError == "NoRecommendersLeftError"

\* the object of the recommender fixture (conftest.py 615-624), itself a
\* two-phase meta-recommender, where it is handed out as a recommender
RecommenderFixture == "TwoPhaseMetaRecommender"

\* TwoPhaseMetaRecommender(initial_recommender, recommender, switch_after)
TwoPhase(initial_recommender, recommender, switch_after) ==
    [variant |-> "two_phase",
     recommenders |-> <<initial_recommender, recommender>>, mode |-> "none",
     unbounded |-> FALSE, switch_after |-> switch_after]

\* SequentialMetaRecommender(recommenders, mode)
Sequential(recommenders, mode) ==
    [variant |-> "sequential", recommenders |-> recommenders, mode |-> mode,
     unbounded |-> FALSE, switch_after |-> 0]

\* StreamingSequentialMetaRecommender(recommenders): the source yields the
\* listed recommenders and then, if unbounded, fresh copies of the last one
\* (chain((RandomRecommender(),), hilberts_factory(SequentialGreedyRecommender)))
Streaming(recommenders, unbounded) ==
    [variant |-> "streaming", recommenders |-> recommenders, mode |-> "none",
     unbounded |-> unbounded, switch_after |-> 0]

MetaConfigs ==
    {TwoPhase(A, r, s) : r \in {B, RecommenderFixture},
                         s \in 1..MaxSwitchAfter}
    \cup {Sequential(r, m) : r \in {<<A>>, <<A, B>>},
                             m \in {"raise", "reuse_last"}}
    \cup {Streaming(r, u) : r \in {<<A>>, <<A, B>>}, u \in BOOLEAN}

\* a new meta-recommender: nothing consumed, no training size seen, no call
NewMeta(config) ==
    [config |-> config, step |-> 0, n_last_measurements |-> -1, log |-> <<>>]

Selected(m, size, result) ==
    [m EXCEPT !.log = Append(@, [size |-> size, result |-> result])]

\* mutant: the main recommender is selected only above the threshold
TwoPhaseSelectAbove(m, size) ==
    Selected(m, size,
             IF size > m.config.switch_after
             THEN m.config.recommenders[2] ELSE m.config.recommenders[1])

\* two-phase: the initial recommender below the threshold, the main one from
\* the threshold on
TwoPhaseSelect(m, size) ==
    Selected(m, size,
             IF size >= m.config.switch_after
             THEN m.config.recommenders[2] ELSE m.config.recommenders[1])

\* mutant: past the end of the list the selection starts over
SequentialSelectCyclic(m, size) ==
    LET step == IF size > m.n_last_measurements THEN m.step + 1 ELSE m.step
        n    == Len(m.config.recommenders)
    IN Selected([m EXCEPT !.step = IF step > n THEN 1 ELSE step,
                          !.n_last_measurements = size],
                size, m.config.recommenders[IF step > n THEN 1 ELSE step])

\* mutant: the reuse policy is ignored
SequentialSelectNoReuse(m, size) ==
    LET step == IF size > m.n_last_measurements THEN m.step + 1 ELSE m.step
    IN IF step > Len(m.config.recommenders)
       THEN Selected([m EXCEPT !.step = step], size, NoRecommendersLeftError)
       ELSE Selected([m EXCEPT !.step = step, !.n_last_measurements = size],
                     size, m.config.recommenders[step])

\* sequential: one recommender of the list is consumed each time the training
\* set has grown; past the end of the list the last one is reused
\* (reuse_last) or the selection fails
SequentialSelect(m, size) ==
    LET step == IF size > m.n_last_measurements THEN m.step + 1 ELSE m.step
        idx  == IF m.config.mode = "reuse_last"
                THEN Min(step, Len(m.config.recommenders)) ELSE step
    IN IF idx > Len(m.config.recommenders)
       THEN Selected([m EXCEPT !.step = step], size, NoRecommendersLeftError)
       ELSE Selected([m EXCEPT !.step = step, !.n_last_measurements = size],
                     size, m.config.recommenders[idx])

\* mutant: an exhausted source hands out its last recommender again
StreamingSelectReuse(m, size) ==
    LET n == Len(m.config.recommenders)
    IN Selected([m EXCEPT !.step = IF size > m.n_last_measurements
                                   THEN Min(@ + 1, n) ELSE @,
                          !.n_last_measurements = size],
                size,
                m.config.recommenders[
                    IF size > m.n_last_measurements
                    THEN Min(m.step + 1, n) ELSE m.step])

\* streaming: the same sequencing on a source that is pulled forward only;
\* a source that has ended signals exhaustion
StreamingSelect(m, size) ==
    LET n == Len(m.config.recommenders)
    IN IF size > m.n_last_measurements
       THEN IF m.step + 1 > n /\ ~m.config.unbounded
            THEN Selected(m, size, NoRecommendersLeftError)
            ELSE Selected([m EXCEPT !.step = @ + 1,
                                    !.n_last_measurements = size],
                          size, m.config.recommenders[Min(m.step + 1, n)])
       ELSE Selected([m EXCEPT !.n_last_measurements = size],
                     size, m.config.recommenders[Min(m.step, n)])

select_recommender(m, size) ==
    CASE m.config.variant = "two_phase" -> TwoPhaseSelect(m, size)
      [] m.config.variant = "sequential" -> SequentialSelect(m, size)
      [] m.config.variant = "streaming" -> StreamingSelect(m, size)

(* ---------------------------------------------------- custom architectures *)
MaxInstances == 1

\* an attribute of a model class as custom.py inspects it: absent, a plain
\* value, a callable object without a code object, or a function with its
\* positional parameters, keyword-only parameters, *args parameter and locals
Attr(kind, args, kwonlyargs, vararg, locals) ==
    [kind |-> kind, args |-> args, kwonlyargs |-> kwonlyargs,
     vararg |-> vararg, locals |-> locals]

Absent == Attr("absent", <<>>, <<>>, <<>>, <<>>)
Value == Attr("value", <<>>, <<>>, <<>>, <<>>)
CallableObject == Attr("callable_object", <<>>, <<>>, <<>>, <<>>)
Function(args, kwonlyargs, vararg, locals) ==
    Attr("function", args, kwonlyargs, vararg, locals)

\* f.__code__.co_varnames: the parameters in the order positional,
\* keyword-only, *args, followed by the local variables
co_varnames(f) == f.args \o f.kwonlyargs \o f.vararg \o f.locals
\* f.__code__.co_argcount: the number of positional parameters
co_argcount(f) == Len(f.args)

\* Surrogate._fit and Surrogate._posterior, as every surrogate overrides them
BaseFit ==
    Function(<<"self", "searchspace", "train_x", "train_y">>, <<>>, <<>>, <<>>)
BasePosterior == Function(<<"self", "candidates">>, <<>>, <<>>, <<>>)

hasattr(model_cls, name) == model_cls[name].kind # "absent"

\* mutant: every attribute counts as callable
callableAlways(attr) == TRUE

callable(attr) == attr.kind \in {"function", "callable_object"}

Raised(status, message) == [status |-> status, message |-> message]

\* lines 58-67 and 69-78: the positional parameter names against the base's
\* co_varnames; an attribute without __code__ raises AttributeError
CheckSignature(attr, base, name) ==
    IF attr.kind # "function"
    THEN Raised("AttributeError", "__code__")
    ELSE IF SubSeq(co_varnames(attr), 1, co_argcount(attr)) # co_varnames(base)
         THEN Raised("ValueError", "Invalid args in " \o name)
         ELSE Raised("ok", "none")

validate_custom_arch_cls(model_cls) ==
    IF ~(hasattr(model_cls, "_fit") /\ hasattr(model_cls, "_posterior"))
    THEN Raised("ValueError", "must exist")
    ELSE IF ~(callable(model_cls["_fit"]) /\ callable(model_cls["_posterior"]))
    THEN Raised("ValueError", "must be methods")
    ELSE IF CheckSignature(model_cls["_fit"], BaseFit, "_fit").status # "ok"
    THEN CheckSignature(model_cls["_fit"], BaseFit, "_fit")
    ELSE CheckSignature(model_cls["_posterior"], BasePosterior, "_posterior")

\* the class construct_custom_architecture returns (lines 104-155)
NoAdapter ==
    [produced |-> FALSE, joint_posterior |-> FALSE,
     supports_transfer_learning |-> FALSE, catch_constant_targets |-> FALSE,
     batchify |-> FALSE]

\* mutant: batchify is applied to the class only when it was decorated
CustomArchitectureSurrogateNested(joint_posterior_attr, constant_target_catching, batchify_posterior) ==
    [produced |-> TRUE, joint_posterior |-> joint_posterior_attr,
     supports_transfer_learning |-> FALSE,
     catch_constant_targets |-> constant_target_catching,
     batchify |-> constant_target_catching /\ batchify_posterior]

CustomArchitectureSurrogate(joint_posterior_attr, constant_target_catching, batchify_posterior) ==
    [produced |-> TRUE, joint_posterior |-> joint_posterior_attr,
     supports_transfer_learning |-> FALSE,
     catch_constant_targets |-> constant_target_catching,
     batchify |-> batchify_posterior]

\* the names the adapter defines, on the class (104-125) or in __init__
\* (111); names inherited from its bases are not listed
AdapterAttrs ==
    {"model", "joint_posterior", "supports_transfer_learning", "__init__",
     "_fit", "_posterior", "__get_attribute__"}

\* the names an instance of the model class defines
ModelAttrs(model_cls) ==
    {n \in {"_fit", "_posterior"} : hasattr(model_cls, n)}
    \cup model_cls.members

AttributeError == "AttributeError"

\* object.__getattribute__ on an adapter instance
object_getattribute(attr) ==
    IF attr \in AdapterAttrs THEN "adapter" ELSE AttributeError

\* lines 125-140: the method named __get_attribute__
get_attribute(model_cls, attr) ==
    IF object_getattribute(attr) # AttributeError
    THEN object_getattribute(attr)
    ELSE IF attr \in ModelAttrs(model_cls) THEN "model" ELSE AttributeError

\* getattr(instance, attr): Python looks the name up with __getattribute__
\* and falls back to __getattr__; the adapter defines neither, so the lookup
\* is object.__getattribute__ and __get_attribute__ takes no part in it
getattr(model_cls, attr) == object_getattribute(attr)

\* the arguments of register_custom_architecture (lines 81-85)
Options(joint_posterior_attr, constant_target_catching, batchify_posterior) ==
    [joint_posterior_attr |-> joint_posterior_attr,
     constant_target_catching |-> constant_target_catching,
     batchify_posterior |-> batchify_posterior]

NoClass == [_fit |-> Absent, _posterior |-> Absent, members |-> {}]
NoLookup == [how |-> "none", attr |-> "none", result |-> "none"]

Unregistered ==
    [registered |-> FALSE, model_cls |-> NoClass,
     options |-> Options(FALSE, TRUE, TRUE), status |-> "none",
     message |-> "none", adapter |-> NoAdapter, instances |-> 0,
     lookup |-> NoLookup]

(* -------------------------------------------------------------- surrogates *)
MaxFitCalls == 2
MaxParams == 2

\* the fitted state of a surrogate: nothing, an ONNX inference session, or a
\* random forest built from hyperparameters, training data and random draws
NoModel == [kind |-> "none", params |-> "none", x |-> <<>>, y |-> <<>>,
            seed |-> "none"]

\* ort.InferenceSession(onnx_str) (line 184)
InferenceSession(onnx_str) ==
    [kind |-> "session", params |-> onnx_str, x |-> <<>>, y |-> <<>>,
     seed |-> "none"]

\* one call of a surrogate as its caller sees it
Call(op, args, before, status, result) ==
    [op |-> op, args |-> args, before |-> before, status |-> status,
     result |-> result]

NoCall == Call("none", <<>>, NoModel, "ok", "none")

NoSurrogate ==
    [cls |-> "none", model_params |-> "none", onnx_input_name |-> "none",
     onnx_str |-> "none", _model |-> NoModel, fits |-> 0, last |-> NoCall]

\* model_params as __attrs_post_init__ looks at it: its truth value and
\* whether it is a dict
ModelParams(is_dict, truthy) == [is_dict |-> is_dict, truthy |-> truthy]

\* mutant: only a non-empty value is refused
ParamsSuppliedTruthy(model_params) == model_params.truthy

\* line 191: self.model_params or not isinstance(self.model_params, dict)
ParamsSupplied(model_params) ==
    model_params.truthy \/ ~model_params.is_dict

\* an onnx_str argument: bytes or a str (a path), which the session can
\* load or not
OnnxStrings == {"bytes_valid", "bytes_invalid", "str_valid", "str_invalid"}
Loads(onnx_str) == onnx_str \in {"bytes_valid", "str_valid"}
IsBytes(onnx_str) == onnx_str \in {"bytes_valid", "bytes_invalid"}

\* CustomONNXSurrogate(onnx_input_name=, onnx_str=, model_params=): the
\* session is built while the fields are set (180-186), the validators of
\* lines 176-177 run next, __attrs_post_init__ (188-192) last
ConstructONNXStatus(onnx_input_name, onnx_str, model_params) ==
    IF ~Loads(onnx_str) THEN "ValueError"
    ELSE IF onnx_input_name # "str" THEN "TypeError"
    ELSE IF ~IsBytes(onnx_str) THEN "TypeError"
    ELSE IF ParamsSupplied(model_params) THEN "ModelParamsNotSupportedError"
    ELSE "ok"

\* mutant: the session is rebuilt from the training data
ONNXFitRetrains(s, train_x, train_y) ==
    [s EXCEPT !._model = [@ EXCEPT !.x = train_x, !.y = train_y],
              !.fits = @ + 1,
              !.last = Call("fit", <<train_x, train_y>>, s._model, "ok",
                            "None")]

\* CustomONNXSurrogate._fit (210-219): pass
ONNXFit(s, train_x, train_y) ==
    [s EXCEPT !.fits = @ + 1,
              !.last = Call("fit", <<train_x, train_y>>, s._model, "ok",
                            "None")]

\* the random draws of a forest: those of random_state if it is set
Seeds(model_params) ==
    IF model_params.random_state = "None" THEN {"s1", "s2"}
    ELSE {model_params.random_state}

\* mutant: the trees of the earlier fits are kept (warm start)
RandomForestFitIncremental(s, train_x, train_y, seed) ==
    [s EXCEPT !._model = [kind |-> "forest", params |-> s.model_params,
                          x |-> s._model.x \o train_x,
                          y |-> s._model.y \o train_y, seed |-> seed],
              !.fits = @ + 1,
              !.last = Call("fit", <<train_x, train_y>>, s._model, "ok",
                            "None")]

\* RandomForestSurrogate._fit (66-69): a new RandomForestRegressor of the
\* model_params, fitted on the data of the call
RandomForestFit(s, train_x, train_y, seed) ==
    [s EXCEPT !._model = [kind |-> "forest", params |-> s.model_params,
                          x |-> train_x, y |-> train_y, seed |-> seed],
              !.fits = @ + 1,
              !.last = Call("fit", <<train_x, train_y>>, s._model, "ok",
                            "None")]

\* _posterior: the answer of the fitted state on the candidates; a forest
\* that was never fitted has no estimators (self._model is None)
PosteriorOf(s, candidates) ==
    IF s._model.kind = "none"
    THEN Call("posterior", <<candidates>>, s._model, "AttributeError", "none")
    ELSE Call("posterior", <<candidates>>, s._model, "ok",
              [model |-> s._model, candidates |-> candidates])

\* a search-space parameter as validate_compatibility looks at it
Parameter(type, decorrelate, encoding) ==
    [type |-> type, decorrelate |-> decorrelate, encoding |-> encoding]

\* mutant: every custom-discrete parameter is accepted
CompatibleAnyCustom(p) ==
    \/ p.type \in {"NumericalContinuousParameter",
                   "NumericalDiscreteParameter", "TaskParameter"}
    \/ p.type = "CustomDiscreteParameter"
    \/ p.type = "CategoricalParameter" /\ p.encoding = "INT"

\* lines 231-242: the test applied to each parameter
Compatible(p) ==
    \/ p.type \in {"NumericalContinuousParameter",
                   "NumericalDiscreteParameter", "TaskParameter"}
    \/ p.type = "CustomDiscreteParameter" /\ ~p.decorrelate
    \/ p.type = "CategoricalParameter" /\ p.encoding = "INT"

\* the names the message of lines 244-250 mentions
IncompatibleMessage == {"CustomONNXSurrogate", "CustomDiscreteParameter"}

\* CustomONNXSurrogate.validate_compatibility (221-250)
validate_compatibility(parameters) ==
    IF \A i \in DOMAIN parameters : Compatible(parameters[i])
    THEN Call("validate_compatibility", parameters, NoModel, "ok", {})
    ELSE Call("validate_compatibility", parameters, NoModel, "TypeError",
              IncompatibleMessage)

(* ------------------------------------------------------- views of a caller *)
NoView == [name |-> "none", table |-> <<>>, transformed |-> FALSE]

\* mutant: the transform is applied to an empty log as well
ViewUnguarded(name, rows, cols) ==
    [name |-> name, table |-> Project(rows, cols), transformed |-> TRUE]

\* lines 55-67: a derived view, with whether the transform was called
View(name, rows, cols) ==
    IF Len(rows) < 1
    THEN [name |-> name, table |-> <<>>, transformed |-> FALSE]
    ELSE [name |-> name, table |-> Project(rows, cols), transformed |-> TRUE]

(* ----------------------------------------------------------- initial state *)
\* a new campaign
InitCampaign ==
    /\ measurements_exp = <<>>
    /\ batches_done = 0
    /\ fits_done = 0
    /\ cached_recommendation = <<>>
    /\ was_measured = {}
    /\ aliased = FALSE
    /\ hist = <<NoEvent, NoEvent>>

\* the campaign of the fixtures: a two-phase strategy (conftest.py 615-624)
Init ==
    /\ InitCampaign
    /\ meta = NewMeta(TwoPhase(A, B, 1))
    /\ custom = Unregistered
    /\ surrogate = NoSurrogate
    /\ view = NoView

(* ------------------------------------------------------------ derived views *)
measurements_parameters_comp ==
    IF Len(measurements_exp) < 1 THEN <<>>
    ELSE Project(measurements_exp, Range(Parameters))

measurements_targets_comp ==
    IF Len(measurements_exp) < 1 THEN <<>>
    ELSE Project(measurements_exp, Range(Targets))

(* -------------------------------------------------------------- add_results *)
\* mutant: the cache survives add_results
KeepCache(cache) == cache

\* line 89: the cache is rebound to an empty table
InvalidateCache(cache) == <<>>

\* mutant: the rows are tagged with the batch counter before its increment
to_insertStale(data, batch) ==
    [i \in DOMAIN data.rows |->
        [vals |-> data.rows[i], BatchNr |-> batch - 1, FitNr |-> FitNrNaN]]

\* mutant: the rows are inserted in reverse order
to_insertReversed(data, batch) ==
    [i \in DOMAIN data.rows |->
        [vals |-> data.rows[Len(data.rows) + 1 - i], BatchNr |-> batch,
         FitNr |-> FitNrNaN]]

\* to_insert: the data rows tagged with the batch number and an unassigned FitNr
to_insert(data, batch) ==
    [i \in DOMAIN data.rows |->
        [vals |-> data.rows[i], BatchNr |-> batch, FitNr |-> FitNrNaN]]

\* mutant: the rows are inserted before the checks raise
AddResultsRaiseLate(data, res) ==
    /\ batches_done < MaxBatches
    /\ cached_recommendation' = InvalidateCache(cached_recommendation)
    /\ aliased' = FALSE
    /\ batches_done' = batches_done + 1
    /\ measurements_exp' =
           measurements_exp \o to_insert(data, batches_done + 1)
    /\ hist' = Push(DataEvent(Len(cached_recommendation), res, data))
    /\ UNCHANGED <<meta, custom, surrogate, view>>
    /\ UNCHANGED <<fits_done, was_measured>>

\* mutant: the cache is invalidated only after the checks have passed
AddResultsRaiseStale(data, res) ==
    /\ aliased' = aliased
    /\ hist' = Push(DataEvent(Len(cached_recommendation), res, data))
    /\ UNCHANGED <<meta, custom, surrogate, view>>
    /\ UNCHANGED <<measurements_exp, batches_done, fits_done, was_measured,
                   cached_recommendation>>

\* one of the checks of lines 91-115 raises
AddResultsRaise(data, res) ==
    /\ cached_recommendation' = InvalidateCache(cached_recommendation)
    /\ aliased' = FALSE
    /\ hist' = Push(DataEvent(Len(cached_recommendation), res, data))
    /\ UNCHANGED <<meta, custom, surrogate, view>>
    /\ UNCHANGED <<measurements_exp, batches_done, fits_done, was_measured>>

\* lines 117-131: all checks passed
AddResultsInsert(data) ==
    /\ batches_done < MaxBatches
    /\ cached_recommendation' = InvalidateCache(cached_recommendation)
    /\ aliased' = FALSE
    /\ was_measured' = mark_as_measured(was_measured, data)
    /\ batches_done' = batches_done + 1
    /\ measurements_exp' =
           measurements_exp \o to_insert(data, batches_done + 1)
    /\ hist' = Push(DataEvent(Len(cached_recommendation), OK, data))
    /\ UNCHANGED <<meta, custom, surrogate, view>>
    /\ UNCHANGED fits_done

AddResults(data) ==
    LET res == Validate(data)
    IN IF res.status # "ok" THEN AddResultsRaise(data, res)
       ELSE AddResultsInsert(data)

(* ---------------------------------------------------------------- recommend *)
\* mutant: any non-empty cache is served
CacheHitNonEmpty(cache, batch_quantity) == Len(cache) > 0

\* mutant: the cache is never served
CacheHitNever(cache, batch_quantity) == FALSE

\* line 155
CacheHit(cache, batch_quantity) == Len(cache) = batch_quantity

\* mutant: every row gets the new fit number
fillnaAll(rows, v) == [i \in DOMAIN rows |-> [rows[i] EXCEPT !.FitNr = v]]

\* mutant: the fill acts on a copy of the column and is lost
fillnaLost(rows, v) == rows

\* line 161: Series.fillna on the FitNr column
fillna(rows, v) ==
    [i \in DOMAIN rows |->
        IF rows[i].FitNr = FitNrNaN THEN [rows[i] EXCEPT !.FitNr = v]
        ELSE rows[i]]

\* lines 171-172: every target column is set to the placeholder
WithPlaceholders(rec) ==
    [i \in DOMAIN rec |->
        [c \in Columns |->
            IF c \in Range(Targets) THEN Placeholder ELSE rec[i][c]]]

\* mutant: the cache is dropped before batch_quantity is checked
RecommendRaiseDropsCache(batch_quantity) ==
    /\ batch_quantity < 1
    /\ hist' = Push(Event("recommend", batch_quantity,
                          Err("ValueError", "batch_quantity"), <<>>, FALSE, 0))
    /\ cached_recommendation' = <<>>
    /\ aliased' = FALSE
    /\ UNCHANGED <<meta, custom, surrogate, view>>
    /\ UNCHANGED <<measurements_exp, batches_done, fits_done, was_measured>>

\* lines 147-151
RecommendRaise(batch_quantity) ==
    /\ batch_quantity < 1
    /\ hist' = Push(Event("recommend", batch_quantity,
                          Err("ValueError", "batch_quantity"), <<>>, FALSE, 0))
    /\ UNCHANGED <<meta, custom, surrogate, view>>
    /\ UNCHANGED <<campaign, aliased>>

\* mutant: a cache hit counts a fit and numbers the waiting rows
RecommendCachedRefits(batch_quantity) ==
    /\ batch_quantity >= 1
    /\ CacheHit(cached_recommendation, batch_quantity)
    /\ fits_done < MaxFits
    /\ fits_done' = fits_done + 1
    /\ measurements_exp' = fillna(measurements_exp, fits_done + 1)
    /\ aliased' = TRUE
    /\ hist' = Push(Event("recommend", batch_quantity, OK,
                          cached_recommendation, FALSE, 0))
    /\ UNCHANGED <<meta, custom, surrogate, view>>
    /\ UNCHANGED <<batches_done, cached_recommendation, was_measured>>

\* lines 155-156: the cache object itself is handed out
RecommendCached(batch_quantity) ==
    /\ batch_quantity >= 1
    /\ CacheHit(cached_recommendation, batch_quantity)
    /\ aliased' = TRUE
    /\ hist' = Push(Event("recommend", batch_quantity, OK,
                          cached_recommendation, FALSE, 0))
    /\ UNCHANGED <<meta, custom, surrogate, view>>
    /\ UNCHANGED campaign

\* mutant: a fit is counted on an empty log as well
RecommendComputeAlwaysFits(batch_quantity) ==
    /\ batch_quantity >= 1
    /\ ~CacheHit(cached_recommendation, batch_quantity)
    /\ fits_done < MaxFits
    /\ fits_done' = fits_done + 1
    /\ measurements_exp' = fillna(measurements_exp, fits_done + 1)
    /\ \E rec \in StrategyRecommend(measurements_parameters_comp',
                                    measurements_targets_comp',
                                    batch_quantity) :
          /\ cached_recommendation' = WithPlaceholders(rec)
          /\ hist' = Push(Event("recommend", batch_quantity, OK,
                                WithPlaceholders(rec), TRUE,
                                Len(measurements_parameters_comp')))
    /\ aliased' = FALSE
    /\ UNCHANGED <<meta, custom, surrogate, view>>
    /\ UNCHANGED <<batches_done, was_measured>>

\* mutant: a fit is counted only when rows wait for their fit number
RecommendComputeFitsNew(batch_quantity) ==
    /\ batch_quantity >= 1
    /\ ~CacheHit(cached_recommendation, batch_quantity)
    /\ IF \E i \in DOMAIN measurements_exp :
             measurements_exp[i].FitNr = FitNrNaN
       THEN /\ fits_done < MaxFits
            /\ fits_done' = fits_done + 1
            /\ measurements_exp' = fillna(measurements_exp, fits_done + 1)
       ELSE UNCHANGED <<fits_done, measurements_exp>>
    /\ \E rec \in StrategyRecommend(measurements_parameters_comp',
                                    measurements_targets_comp',
                                    batch_quantity) :
          /\ cached_recommendation' = WithPlaceholders(rec)
          /\ hist' = Push(Event("recommend", batch_quantity, OK,
                                WithPlaceholders(rec), TRUE,
                                Len(measurements_parameters_comp')))
    /\ aliased' = FALSE
    /\ UNCHANGED <<meta, custom, surrogate, view>>
    /\ UNCHANGED <<batches_done, was_measured>>

\* lines 158-177
RecommendCompute(batch_quantity) ==
    /\ batch_quantity >= 1
    /\ ~CacheHit(cached_recommendation, batch_quantity)
    /\ IF Len(measurements_exp) > 0
       THEN /\ fits_done < MaxFits
            /\ fits_done' = fits_done + 1
            /\ measurements_exp' = fillna(measurements_exp, fits_done + 1)
       ELSE UNCHANGED <<fits_done, measurements_exp>>
    /\ \E rec \in StrategyRecommend(measurements_parameters_comp',
                                    measurements_targets_comp',
                                    batch_quantity) :
          /\ cached_recommendation' = WithPlaceholders(rec)
          /\ hist' = Push(Event("recommend", batch_quantity, OK,
                                WithPlaceholders(rec), TRUE,
                                Len(measurements_parameters_comp')))
    /\ aliased' = FALSE
    /\ UNCHANGED <<meta, custom, surrogate, view>>
    /\ UNCHANGED <<batches_done, was_measured>>

Recommend(batch_quantity) ==
    \/ RecommendRaise(batch_quantity)
    \/ RecommendCached(batch_quantity)
    \/ RecommendCompute(batch_quantity)

(* ------------------------------------------------------------------ caller *)
\* add_fake_results: the caller writes target values into a table it was handed
Fill(table) ==
    [i \in DOMAIN table |->
        [c \in Columns |->
            IF c \in Range(Targets) THEN "1" ELSE table[i][c]]]

\* the table is the cache object itself, so the cache changes with it
EditReturned ==
    /\ aliased
    /\ cached_recommendation' = Fill(cached_recommendation)
    /\ hist' = Push(Event("edit", 0, OK, <<>>, FALSE, 0))
    /\ UNCHANGED <<meta, custom, surrogate, view>>
    /\ UNCHANGED <<measurements_exp, batches_done, fits_done, was_measured,
                   aliased>>

(* ------------------------------------------------------------------ inputs *)
\* tables of at most maxrows rows whose column kinds and cells are drawn from
\* kindsOf[c] and cellsOf[c]
TableSet(maxrows, kindsOf, cellsOf) ==
    LET RowSet == { r \in [Columns -> UNION {cellsOf[c] : c \in Columns}] :
                        \A c \in Columns : r[c] \in cellsOf[c] }
        KindSet == { k \in [Columns -> Kinds] :
                        \A c \in Columns : k[c] \in kindsOf[c] }
    IN { t \in [kind : KindSet,
                rows : UNION {[1..m -> RowSet] : m \in 0..maxrows}] :
            WellFormed(t) }

\* the tables of a campaign run: filled-in recommendations, some with an
\* unfilled or missing target
Tables ==
    TableSet(MaxRows,
             [c \in Columns |->
                 CASE c = "Target_max" -> {"f", "O"}
                   [] c = "Target_min" -> {"f"}
                   [] c = "Num_disc_1" -> {"i"}
                   [] OTHER -> {"O"}],
             [c \in Columns |->
                 CASE c = "Target_min" -> {"1", NaN}
                   [] OTHER -> {"1"}])

\* every table of at most MaxRowsChecked rows over all dtype kinds, with
\* cells present or missing
AllTables ==
    TableSet(MaxRowsChecked, [c \in Columns |-> Kinds],
             [c \in Columns |-> {"1", NaN}])

Next ==
    \/ \E data \in Tables : AddResults(data)
    \/ \E batch_quantity \in -1..MaxQuantity : Recommend(batch_quantity)
    \/ EditReturned

Spec == Init /\ [][Next]_vars

\* valid tables of at most MaxRowsAppended rows that differ in their parameter
\* value, so that the order of the rows shows
AppendTables ==
    TableSet(MaxRowsAppended,
             [c \in Columns |-> IF c = "Categorical_1" THEN {"O"} ELSE {"f"}],
             [c \in Columns |->
                 IF c = "Num_disc_1" THEN {"1", "2"} ELSE {"1"}])

\* a campaign that is handed such tables and asked for single recommendations
NextAppend ==
    \/ \E data \in AppendTables : AddResults(data)
    \/ \E batch_quantity \in 0..1 : Recommend(batch_quantity)

SpecAppend == Init /\ [][NextAppend]_vars

\* register_custom_architecture(...)(model_cls): the class is validated
\* first (line 102); the adapter class is defined only if that passes
Register(model_cls, joint_posterior_attr, constant_target_catching, batchify_posterior) ==
    /\ ~custom.registered
    /\ LET res == validate_custom_arch_cls(model_cls)
       IN custom' =
            [custom EXCEPT
               !.registered = TRUE,
               !.model_cls = model_cls,
               !.options = Options(joint_posterior_attr,
                                   constant_target_catching,
                                   batchify_posterior),
               !.status = res.status,
               !.message = res.message,
               !.adapter =
                   IF res.status = "ok"
                   THEN CustomArchitectureSurrogate(joint_posterior_attr,
                                                    constant_target_catching,
                                                    batchify_posterior)
                   ELSE NoAdapter]
    /\ UNCHANGED <<campaign, aliased, hist, meta, surrogate, view>>

\* lines 110-111: an adapter instance constructs its model instance
Instantiate ==
    /\ custom.adapter.produced
    /\ custom.instances < MaxInstances
    /\ custom' = [custom EXCEPT !.instances = @ + 1]
    /\ UNCHANGED <<campaign, aliased, hist, meta, surrogate, view>>

\* instance.attr
GetAttr(attr) ==
    /\ custom.instances > 0
    /\ custom' = [custom EXCEPT
                    !.lookup = [how |-> "getattr", attr |-> attr,
                                result |-> getattr(custom.model_cls, attr)]]
    /\ UNCHANGED <<campaign, aliased, hist, meta, surrogate, view>>

\* instance.__get_attribute__(attr), called by name
CallGetAttribute(attr) ==
    /\ custom.instances > 0
    /\ custom' = [custom EXCEPT
                    !.lookup = [how |-> "__get_attribute__", attr |-> attr,
                                result |-> get_attribute(custom.model_cls,
                                                         attr)]]
    /\ UNCHANGED <<campaign, aliased, hist, meta, surrogate, view>>

\* candidate _fit and _posterior attributes of a user's model class
FitArgs ==
    {<<"self", "searchspace", "train_x", "train_y">>,
     <<"self", "searchspace", "x", "train_y">>,
     <<"self", "train_x", "searchspace", "train_y">>,
     <<"self", "searchspace", "train_x">>,
     <<"self", "searchspace", "train_x", "train_y", "weights">>}

FitAttrs ==
    {Absent, Value, CallableObject}
    \cup {Function(a, k, v, l) : a \in FitArgs, k \in {<<>>, <<"weights">>},
                                 v \in {<<>>, <<"args">>},
                                 l \in {<<>>, <<"tmp">>}}

PosteriorAttrs ==
    {Absent, Value, CallableObject}
    \cup {Function(a, k, <<>>, <<>>) :
             a \in {<<"self", "candidates">>, <<"self", "x">>,
                    <<"self", "candidates", "extra">>},
             k \in {<<>>, <<"weights">>}}

ModelClasses ==
    {[_fit |-> f, _posterior |-> p, members |-> m] :
        f \in FitAttrs, p \in PosteriorAttrs, m \in {{}, {"extra"}}}

AttrNames == AdapterAttrs \cup {"extra", "missing"}

NextCustom ==
    \/ \E model_cls \in ModelClasses, j, c, b \in BOOLEAN :
          Register(model_cls, j, c, b)
    \/ Instantiate
    \/ \E attr \in AttrNames : GetAttr(attr)
    \/ \E attr \in AttrNames : CallGetAttribute(attr)

SpecCustom == Init /\ [][NextCustom]_vars

\* CustomONNXSurrogate(...): an object exists only if construction passes
ConstructONNX(onnx_input_name, onnx_str, model_params) ==
    /\ surrogate = NoSurrogate
    /\ LET status == ConstructONNXStatus(onnx_input_name, onnx_str,
                                         model_params)
           made == Call("construct", <<onnx_input_name, onnx_str,
                                       model_params>>, NoModel, status, "none")
       IN surrogate' =
            IF status = "ok"
            THEN [NoSurrogate EXCEPT !.cls = "CustomONNXSurrogate",
                                     !.model_params = model_params,
                                     !.onnx_input_name = onnx_input_name,
                                     !.onnx_str = onnx_str,
                                     !._model = InferenceSession(onnx_str),
                                     !.last = made]
            ELSE [NoSurrogate EXCEPT !.last = made]
    /\ UNCHANGED <<campaign, aliased, hist, meta, custom, view>>

\* RandomForestSurrogate(model_params): _model is None until the first fit
ConstructRandomForest(model_params) ==
    /\ surrogate = NoSurrogate
    /\ surrogate' =
         [NoSurrogate EXCEPT !.cls = "RandomForestSurrogate",
                             !.model_params = model_params,
                             !.last = Call("construct", <<model_params>>,
                                           NoModel, "ok", "none")]
    /\ UNCHANGED <<campaign, aliased, hist, meta, custom, view>>

\* surrogate._fit(searchspace, train_x, train_y)
Fit(train_x, train_y) ==
    /\ surrogate.cls # "none"
    /\ surrogate.fits < MaxFitCalls
    /\ IF surrogate.cls = "CustomONNXSurrogate"
       THEN surrogate' = ONNXFit(surrogate, train_x, train_y)
       ELSE \E seed \in Seeds(surrogate.model_params) :
               surrogate' = RandomForestFit(surrogate, train_x, train_y, seed)
    /\ UNCHANGED <<campaign, aliased, hist, meta, custom, view>>

\* surrogate._posterior(candidates)
Posterior(candidates) ==
    /\ surrogate.cls # "none"
    /\ surrogate' = [surrogate EXCEPT !.last = PosteriorOf(surrogate,
                                                           candidates)]
    /\ UNCHANGED <<campaign, aliased, hist, meta, custom, view>>

\* CustomONNXSurrogate.validate_compatibility(searchspace), a class method
ValidateCompatibility(parameters) ==
    /\ surrogate = NoSurrogate
    /\ surrogate' = [NoSurrogate EXCEPT
                        !.last = validate_compatibility(parameters)]
    /\ UNCHANGED <<campaign, aliased, hist, meta, custom, view>>

\* arguments of the calls
ModelParamsValues == {ModelParams(d, t) : d, t \in BOOLEAN}

ForestParams ==
    {[n_estimators |-> n, random_state |-> r] :
        n \in {"1", "2"}, r \in {"None", "0"}}

TrainingData == {<<"1">>, <<"1", "2">>}

ParameterKinds ==
    {Parameter(t, FALSE, "none") :
        t \in {"NumericalContinuousParameter", "NumericalDiscreteParameter",
               "TaskParameter"}}
    \cup {Parameter("CustomDiscreteParameter", d, "none") : d \in BOOLEAN}
    \cup {Parameter("CategoricalParameter", FALSE, e) : e \in {"INT", "OHE"}}
    \cup {Parameter("SubstanceParameter", d, "MORDRED") : d \in BOOLEAN}

SearchSpaces ==
    UNION {[1..n -> ParameterKinds] : n \in 0..MaxParams}

NextSurrogate ==
    \/ \E n \in {"str", "other"}, o \in OnnxStrings,
          m \in ModelParamsValues : ConstructONNX(n, o, m)
    \/ \E m \in ForestParams : ConstructRandomForest(m)
    \/ \E x, y \in TrainingData : Fit(x, y)
    \/ \E c \in TrainingData : Posterior(c)
    \/ \E parameters \in SearchSpaces : ValidateCompatibility(parameters)

SpecSurrogate == Init /\ [][NextSurrogate]_vars

\* a caller reads campaign.measurements_parameters_comp
ReadParametersComp ==
    /\ view' = View("measurements_parameters_comp", measurements_exp,
                    Range(Parameters))
    /\ UNCHANGED <<campaign, aliased, hist, meta, custom, surrogate>>

\* a caller reads campaign.measurements_targets_comp
ReadTargetsComp ==
    /\ view' = View("measurements_targets_comp", measurements_exp,
                    Range(Targets))
    /\ UNCHANGED <<campaign, aliased, hist, meta, custom, surrogate>>

\* a campaign whose derived views are read between its add_results calls
NextViews ==
    \/ \E data \in Tables : AddResults(data)
    \/ ReadParametersComp
    \/ ReadTargetsComp

SpecViews == Init /\ [][NextViews]_vars

\* one selection; the training set of a campaign only grows
SelectRecommender(size) ==
    /\ Len(meta.log) < MaxCalls
    /\ meta.log # <<>> => size >= meta.log[Len(meta.log)].size
    /\ meta' = select_recommender(meta, size)
    /\ UNCHANGED <<campaign, aliased, hist, custom, surrogate, view>>

InitMeta ==
    /\ InitCampaign
    /\ meta \in {NewMeta(c) : c \in MetaConfigs}
    /\ custom = Unregistered
    /\ surrogate = NoSurrogate
    /\ view = NoView

NextMeta == \E size \in 0..MaxTrain : SelectRecommender(size)

SpecMeta == InitMeta /\ [][NextMeta]_vars

\* the checks of add_results are a function of the table alone: a fresh
\* campaign is handed any one table
NextValidate ==
    \E data \in AllTables : Last.op = "none" /\ AddResults(data)

SpecValidate == Init /\ [][NextValidate]_vars

(* ------------------------------------------------------------------ claims *)
IsRec(e) == e.op = "recommend" /\ e.status = "ok"
IsAdd(e) == e.op = "add_results"
IsAddOk(e) == e.op = "add_results" /\ e.status = "ok"
Unassigned(rows) == {i \in DOMAIN rows : rows[i].FitNr = FitNrNaN}

\* C1: a recommend(n) call that directly follows a successful recommend(n)
\* returns the same table as that call did.
C1_Idempotent ==
    [][(IsRec(Last) /\ IsRec(Last') /\ Last'.n = Last.n)
          => Last'.table = Last.table]_vars

C1_Witness ==
    /\ IsRec(Prev) /\ IsRec(Last) /\ Prev.n = Last.n
    /\ ~Last.invoked
    /\ Len(measurements_exp) > 0

\* C2: a recommend(n) call that directly follows a successful recommend(n)
\* does not invoke the strategy and leaves fits_done as it was.
C2_NoRefit ==
    [][(IsRec(Last) /\ IsRec(Last') /\ Last'.n = Last.n)
          => (~Last'.invoked /\ fits_done' = fits_done)]_vars

C2_Witness ==
    /\ IsRec(Prev) /\ IsRec(Last) /\ Prev.n = Last.n
    /\ ~Last.invoked
    /\ fits_done = MaxFits

\* C3: after recommend(n) and a successful add_results, recommend(n) does not
\* serve the table cached before: it invokes the strategy, on the whole
\* measurement log including the rows just added.
C3_CacheInvalidated ==
    (IsAddOk(Prev) /\ IsRec(Last) /\ Prev.n = Last.n)
        => (Last.invoked /\ Last.train = Len(measurements_exp))

C3_Witness ==
    /\ IsAddOk(Prev) /\ IsRec(Last) /\ Prev.n = Last.n
    /\ Last.invoked /\ Last.train = MaxBatches * MaxRows

\* C4 as stated: a successful recommend that follows a successful add_results
\* increments fits_done by exactly one and gives every unassigned row the new
\* value.
C4_Original ==
    [][(IsAddOk(Last) /\ IsRec(Last'))
          => /\ fits_done' = fits_done + 1
             /\ Len(measurements_exp') = Len(measurements_exp)
             /\ \A i \in Unassigned(measurements_exp) :
                    measurements_exp'[i].FitNr = fits_done'
             /\ Unassigned(measurements_exp') = {}]_vars

\* C4 amended: the same, when the measurement log holds at least one row; on
\* a log that is still empty the recommend call leaves fits_done unchanged.
C4_Backfill ==
    [][(IsAddOk(Last) /\ IsRec(Last'))
          => IF Len(measurements_exp) > 0
             THEN /\ fits_done' = fits_done + 1
                  /\ Len(measurements_exp') = Len(measurements_exp)
                  /\ \A i \in Unassigned(measurements_exp) :
                         measurements_exp'[i].FitNr = fits_done'
                  /\ Unassigned(measurements_exp') = {}
             ELSE /\ fits_done' = fits_done
                  /\ measurements_exp' = <<>>]_vars

\* rows of two add_results calls were backfilled by one fit
C4_Witness ==
    /\ IsAddOk(Prev) /\ IsRec(Last)
    /\ \E i, j \in DOMAIN measurements_exp :
          /\ measurements_exp[i].BatchNr # measurements_exp[j].BatchNr
          /\ measurements_exp[i].FitNr = fits_done
          /\ measurements_exp[j].FitNr = fits_done

\* C5: an add_results call that raises leaves the measurement log, both
\* counters and the search space's measured marks as they were.
C5_FailedAddFrame ==
    [][(IsAdd(Last') /\ Last'.status # "ok")
          => UNCHANGED <<measurements_exp, batches_done, fits_done,
                         was_measured>>]_vars

C5_Witness ==
    /\ IsAdd(Last) /\ Last.status # "ok"
    /\ Last.n > 0
    /\ Len(measurements_exp) > 0 /\ fits_done > 0
    /\ batches_done < MaxBatches

\* C6: the cache is empty after every add_results call, raised or not; an
\* empty cache is filled only by a recommend call that invokes the strategy,
\* and a successful recommend on an empty cache always does so and hands out
\* a fresh table.
C6_NoStaleAnswer ==
    [][/\ IsAdd(Last') => cached_recommendation' = <<>>
       /\ (cached_recommendation = <<>> /\ cached_recommendation' # <<>>)
             => (IsRec(Last') /\ Last'.invoked)
       /\ (cached_recommendation = <<>> /\ IsRec(Last'))
             => (Last'.invoked /\ ~aliased')]_vars

C6_Witness ==
    /\ IsAdd(Prev) /\ Prev.status # "ok" /\ Prev.n > 0
    /\ IsRec(Last) /\ Last.n = Prev.n /\ Last.invoked

\* what the checks look at
Missing(data, c) == \E i \in DOMAIN data.rows : data.rows[i][c] = "NaN"
NonNumericKind(data, c) == data.kind[c] \notin {"i", "u", "f", "b"}
TargetOffends(data, c) == Missing(data, c) \/ NonNumericKind(data, c)
ParamOffends(data, c) ==
    Missing(data, c) \/ (c = "Num_disc_1" /\ NonNumericKind(data, c))

\* C7 as stated: every target column with a missing value makes the call fail
\* with a ValueError naming it, every target column of non-numeric kind with
\* a TypeError naming it.
C7_Original ==
    IsAdd(Last) =>
        \A t \in Range(Targets) :
            /\ Missing(Last.data, t)
                  => (Last.status = "ValueError" /\ Last.column = t)
            /\ NonNumericKind(Last.data, t)
                  => (Last.status = "TypeError" /\ Last.column = t)

\* C7 amended: the call fails on the first target, in declaration order, that
\* has a missing value or a non-numeric kind, naming it: with a ValueError if
\* it has a missing value, else with a TypeError.
C7_FirstOffendingTarget ==
    IsAdd(Last) =>
        \A i \in DOMAIN Targets :
            (/\ TargetOffends(Last.data, Targets[i])
             /\ \A j \in 1..(i - 1) : ~TargetOffends(Last.data, Targets[j]))
                => /\ Last.column = Targets[i]
                   /\ Last.status = IF Missing(Last.data, Targets[i])
                                    THEN "ValueError" ELSE "TypeError"

\* the first target is fine; the second, an object column, has a missing value
C7_Witness ==
    /\ IsAdd(Last) /\ Last.status = "ValueError"
    /\ Last.column = "Target_min"
    /\ NonNumericKind(Last.data, "Target_min")
    /\ ~TargetOffends(Last.data, "Target_max")

\* C8: a missing value in a parameter column, or a non-numeric kind for the
\* numeric parameter, makes the call fail naming a column that offends (a
\* parameter column when no target offends); a table whose only non-numeric
\* kind is on the non-numeric parameter is accepted.
C8_ParameterChecks ==
    IsAdd(Last) =>
        LET d == Last.data
            BadTargets == {t \in Range(Targets) : TargetOffends(d, t)}
            BadParams == {q \in Range(Parameters) : ParamOffends(d, q)}
        IN /\ BadParams # {}
                => /\ Last.status \in {"ValueError", "TypeError"}
                   /\ Last.column \in BadTargets \cup BadParams
                   /\ BadTargets = {} => Last.column \in BadParams
           /\ (BadTargets = {} /\ BadParams = {}) => Last.status = "ok"

\* an object column for the non-numeric parameter was accepted
C8_Witness ==
    /\ IsAddOk(Last)
    /\ Last.data.kind["Categorical_1"] = "O"
    /\ Len(Last.data.rows) > 0
    /\ Len(measurements_exp) = Len(Last.data.rows)

\* C9: recommend(batch_quantity) with batch_quantity < 1 raises a ValueError
\* and changes nothing of the campaign, the cache included.
C9_RejectsNonPositive ==
    [][(Last'.op = "recommend" /\ Last'.n < 1)
          => /\ Last'.status = "ValueError"
             /\ Last'.table = <<>>
             /\ UNCHANGED <<measurements_exp, batches_done, fits_done,
                            cached_recommendation, was_measured, aliased>>]_vars

C9_Witness ==
    /\ Last.op = "recommend" /\ Last.n < 1 /\ Last.status = "ValueError"
    /\ cached_recommendation # <<>>
    /\ Len(measurements_exp) > 0

\* C10: a successful recommend(n) returns exactly n rows.
C10_BatchSize ==
    IsRec(Last) => Len(Last.table) = Last.n

\* the largest batch, asked of a campaign without measurements
C10_Witness ==
    /\ IsRec(Last) /\ Last.n = MaxQuantity /\ Last.invoked
    /\ Len(Last.table) = MaxQuantity
    /\ measurements_exp = <<>> /\ batches_done = 0

Targets_of(table) ==
    {table[i][t] : i \in DOMAIN table, t \in Range(Targets)}

\* C11: every table a successful recommend returns has the placeholder in
\* every target column of every row.
C11_AllPlaceholders ==
    IsRec(Last) => Targets_of(Last.table) \subseteq {"<Enter value>"}

\* C12: a successful add_results increments batches_done by one, keeps every
\* existing row in place, appends the incoming rows in their order, tagged
\* with the new batches_done and an unassigned FitNr, and keeps fits_done.
C12_Append ==
    [][IsAddOk(Last') =>
          LET d == Last'.data.rows
              n == Len(measurements_exp)
          IN /\ batches_done' = batches_done + 1
             /\ fits_done' = fits_done
             /\ Len(measurements_exp') = n + Len(d)
             /\ \A i \in 1..n : measurements_exp'[i] = measurements_exp[i]
             /\ \A j \in 1..Len(d) :
                    /\ measurements_exp'[n + j].vals = d[j]
                    /\ measurements_exp'[n + j].BatchNr = batches_done + 1
                    /\ measurements_exp'[n + j].FitNr = 0]_vars

\* two different rows were appended to a log that already held fitted rows
C12_Witness ==
    /\ IsAddOk(Last)
    /\ Len(Last.data.rows) = 2
    /\ Last.data.rows[1] # Last.data.rows[2]
    /\ Len(measurements_exp) > 2
    /\ measurements_exp[1].FitNr = 1
    /\ measurements_exp[Len(measurements_exp)].vals = Last.data.rows[2]

\* C13: a step that ends in an add_results call leaves the cache empty, a
\* successful recommend(n) leaves it with n rows, and no other step changes
\* its row count: a non-empty cache was written after the last add_results
\* call and has the row count of the last successful recommend.
C13_CacheValid ==
    [][/\ IsAdd(Last') => cached_recommendation' = <<>>
       /\ IsRec(Last') => Len(cached_recommendation') = Last'.n
       /\ (~IsAdd(Last') /\ ~IsRec(Last'))
             => Len(cached_recommendation') = Len(cached_recommendation)]_vars

\* a cache that outlived a rejected recommend call and an edit by the caller
C13_Witness ==
    /\ cached_recommendation # <<>>
    /\ Last.op = "recommend" /\ Last.status = "ValueError"
    /\ Prev.op = "edit"
    /\ Len(cached_recommendation) = MaxQuantity

\* the selections made so far
Results == [i \in DOMAIN meta.log |-> meta.log[i].result]
Sizes == [i \in DOMAIN meta.log |-> meta.log[i].size]

\* C14: a sequential meta-recommender over [A, B] with mode reuse_last never
\* fails for exhaustion, answers three selections at increasing training
\* sizes with A, B, B, and once it has handed out B it hands out B for ever.
C14_ReuseLast ==
    meta.config = Sequential(<<A, B>>, "reuse_last")
        => /\ \A i \in DOMAIN Results : Results[i] # NoRecommendersLeftError
           /\ (Len(Results) >= 3 /\ Sizes[1] < Sizes[2] /\ Sizes[2] < Sizes[3])
                 => (Results[1] = A /\ Results[2] = B /\ Results[3] = B)
           /\ \A i, j \in DOMAIN Results :
                 (i < j /\ Results[i] = B) => Results[j] = B

\* three selections at growing training sizes
C14_Witness ==
    /\ meta.config = Sequential(<<A, B>>, "reuse_last")
    /\ Len(Results) = 3
    /\ Sizes[1] < Sizes[2] /\ Sizes[2] < Sizes[3]
    /\ Results = <<A, B, B>>

\* the recommenders handed out before selection i, and the training size of
\* the last selection before i that succeeded
HandedOut(i) == {Results[j] : j \in 1..(i - 1)} \ {NoRecommendersLeftError}
LastSize(i) ==
    LET ok == {j \in 1..(i - 1) : Results[j] # NoRecommendersLeftError}
    IN IF ok = {} THEN -1 ELSE Sizes[CHOOSE j \in ok : \A k \in ok : k <= j]

\* C15: without a reuse policy a sequential or streaming meta-recommender
\* fails a selection exactly when the training set has grown and every
\* recommender of a sequence that ends has been handed out before.
C15_Exhaustion ==
    (\/ meta.config.variant = "sequential" /\ meta.config.mode = "raise"
     \/ meta.config.variant = "streaming")
        => \A i \in DOMAIN Results :
              Results[i] = NoRecommendersLeftError
                  <=> /\ ~meta.config.unbounded
                      /\ Range(meta.config.recommenders) \subseteq HandedOut(i)
                      /\ Sizes[i] > LastSize(i)

\* a streaming source of two recommenders ended at the third selection
C15_Witness ==
    /\ meta.config = Streaming(<<A, B>>, FALSE)
    /\ Results = <<A, B, NoRecommendersLeftError>>

\* C16: the two-phase meta-recommender selects the initial recommender below
\* the threshold and the main one from the threshold on; over growing
\* training sets it changes its selection at most once and never goes back
\* to the initial recommender.
C16_TwoPhase ==
    meta.config.variant = "two_phase"
        => /\ \A i \in DOMAIN Results :
                 Results[i] = IF Sizes[i] < meta.config.switch_after
                              THEN meta.config.recommenders[1]
                              ELSE meta.config.recommenders[2]
           /\ \A i, j \in DOMAIN Results :
                 (i < j /\ Results[i] = meta.config.recommenders[2])
                    => Results[j] = meta.config.recommenders[2]
           /\ Cardinality({i \in DOMAIN Results :
                              i > 1 /\ Results[i] # Results[i - 1]}) <= 1

\* selections below, at and above the threshold
C16_Witness ==
    /\ meta.config = TwoPhase(A, RecommenderFixture, MaxSwitchAfter)
    /\ Len(Results) = 3
    /\ Sizes[1] < MaxSwitchAfter /\ Sizes[2] = MaxSwitchAfter
    /\ Sizes[3] > MaxSwitchAfter
    /\ Results = <<A, RecommenderFixture, RecommenderFixture>>

\* the two methods of the contract
Methods == {"_fit", "_posterior"}

\* C18: registering a class that lacks _fit or _posterior, or has one that is
\* not callable, raises a ValueError, produces no adapter class, and no model
\* instance is constructed.
C18_MissingMethod ==
    (/\ custom.registered
     /\ \E n \in Methods : custom.model_cls[n].kind \in {"absent", "value"})
        => /\ custom.status = "ValueError"
           /\ ~custom.adapter.produced
           /\ custom.instances = 0

\* a class with a conforming _fit and a _posterior that is a plain value
C18_Witness ==
    /\ custom.registered
    /\ custom.model_cls["_fit"] = BaseFit
    /\ custom.model_cls["_posterior"] = Value
    /\ custom.status = "ValueError"

\* the parameter list of a method: all its parameters, in order
ParameterList(f) == <<f.args, f.kwonlyargs, f.vararg>>

SameParameters(model_cls) ==
    /\ ParameterList(model_cls["_fit"]) = ParameterList(BaseFit)
    /\ ParameterList(model_cls["_posterior"]) = ParameterList(BasePosterior)

\* C19: a class with two methods is accepted exactly when the parameter
\* lists of both equal the base's; any other class fails at registration
\* with a ValueError that names the signature.
C19_SignaturesEqual ==
    (/\ custom.registered
     /\ \A n \in Methods : custom.model_cls[n].kind = "function")
        => IF SameParameters(custom.model_cls)
           THEN custom.status = "ok"
           ELSE /\ custom.status = "ValueError"
                /\ custom.message \in {"Invalid args in _fit",
                                       "Invalid args in _posterior"}

\* C20: on an adapter instance, a name the adapter does not define and the
\* model instance does is answered by the model; a name the adapter defines
\* is answered by the adapter.
C20_Delegation ==
    custom.lookup.how = "getattr"
        => /\ custom.lookup.attr \in AdapterAttrs
                 => custom.lookup.result = "adapter"
           /\ (/\ custom.lookup.attr \notin AdapterAttrs
               /\ custom.lookup.attr \in ModelAttrs(custom.model_cls))
                 => custom.lookup.result = "model"

\* C21: the adapter class carries joint_posterior_attr as its joint_posterior
\* flag, is decorated with catch_constant_targets exactly when
\* constant_target_catching is set, has its _posterior batchified exactly when
\* batchify_posterior is set, and never supports transfer learning.
C21_Options ==
    custom.adapter.produced
        => /\ custom.adapter.joint_posterior
                 = custom.options.joint_posterior_attr
           /\ custom.adapter.catch_constant_targets
                 = custom.options.constant_target_catching
           /\ custom.adapter.batchify = custom.options.batchify_posterior
           /\ ~custom.adapter.supports_transfer_learning

\* an adapter that is batchified and not guarded against constant targets
C21_Witness ==
    /\ custom.adapter.produced
    /\ custom.options = Options(TRUE, FALSE, TRUE)
    /\ custom.adapter.batchify /\ ~custom.adapter.catch_constant_targets

\* what a surrogate is, apart from the record of its calls
StateOf(s) == <<s.cls, s.model_params, s.onnx_input_name, s.onnx_str, s._model>>

\* C22: a fit call on the ONNX surrogate, whatever its training data, leaves
\* the surrogate as it was and returns nothing, so the posterior of any
\* candidates is the same before and after.
C22_FitNoOp ==
    [][(surrogate.cls = "CustomONNXSurrogate"
        /\ surrogate'.fits = surrogate.fits + 1)
          => /\ StateOf(surrogate') = StateOf(surrogate)
             /\ surrogate'.last.result = "None"
             /\ \A c \in TrainingData :
                   PosteriorOf(surrogate', c).result
                       = PosteriorOf(surrogate, c).result]_vars

\* a posterior asked after two fits on different data
C22_Witness ==
    /\ surrogate.cls = "CustomONNXSurrogate"
    /\ surrogate.fits = 2
    /\ surrogate.last.op = "posterior" /\ surrogate.last.status = "ok"
    /\ surrogate.last.result.model = InferenceSession("bytes_valid")

\* the parameter kinds the claim lists as acceptable
Listed(p) ==
    \/ p.type \in {"NumericalContinuousParameter",
                   "NumericalDiscreteParameter", "TaskParameter"}
    \/ p.type = "CustomDiscreteParameter" /\ ~p.decorrelate
    \/ p.type = "CategoricalParameter" /\ p.encoding = "INT"

Validated == surrogate.last.op = "validate_compatibility"

\* C23 as stated: a search space is accepted exactly when every parameter is
\* of a listed kind, and a rejection names the kind of an offending parameter.
C23_Original ==
    Validated =>
        LET ps == surrogate.last.args
        IN IF \A i \in DOMAIN ps : Listed(ps[i])
           THEN surrogate.last.status = "ok"
           ELSE /\ surrogate.last.status = "TypeError"
                /\ \E i \in DOMAIN ps :
                      /\ ~Listed(ps[i])
                      /\ ps[i].type \in surrogate.last.result

\* C23: a search space is accepted exactly when every parameter is of a
\* listed kind; a rejection is a TypeError whose message names the surrogate
\* class and CustomDiscreteParameter, whatever the offending parameter is.
C23_Compatibility ==
    Validated =>
        LET ps == surrogate.last.args
        IN IF \A i \in DOMAIN ps : Listed(ps[i])
           THEN surrogate.last.status = "ok"
           ELSE /\ surrogate.last.status = "TypeError"
                /\ surrogate.last.result
                      = {"CustomONNXSurrogate", "CustomDiscreteParameter"}

\* a search space rejected for a one-hot encoded categorical parameter
C23_Witness ==
    /\ Validated
    /\ surrogate.last.args
          = <<Parameter("NumericalDiscreteParameter", FALSE, "none"),
              Parameter("CategoricalParameter", FALSE, "OHE")>>
    /\ surrogate.last.status = "TypeError"

\* a construction of the ONNX surrogate with a str name and loadable bytes
ConstructedONNX ==
    /\ surrogate.last.op = "construct"
    /\ Len(surrogate.last.args) = 3
    /\ surrogate.last.args[1] = "str"
    /\ surrogate.last.args[2] = "bytes_valid"

\* C24: constructing the ONNX surrogate with a non-empty mapping or with a
\* value that is no mapping as model parameters raises
\* ModelParamsNotSupportedError and yields no object; with an empty mapping
\* the construction succeeds.
C24_ModelParams ==
    ConstructedONNX =>
        IF surrogate.last.args[3] = ModelParams(TRUE, FALSE)
        THEN /\ surrogate.last.status = "ok"
             /\ surrogate.cls = "CustomONNXSurrogate"
        ELSE /\ surrogate.last.status = "ModelParamsNotSupportedError"
             /\ surrogate.cls = "none"

\* model_params = None: empty and no mapping
C24_Witness ==
    /\ ConstructedONNX
    /\ surrogate.last.args[3] = ModelParams(FALSE, FALSE)
    /\ surrogate.last.status = "ModelParamsNotSupportedError"

\* C28: after a fit of the random forest surrogate the fitted state is a
\* forest built from the surrogate's hyperparameters and the training data of
\* that call alone, whatever was fitted before, and fit returned nothing.
C28_FitFromScratch ==
    (surrogate.cls = "RandomForestSurrogate" /\ surrogate.last.op = "fit")
        => /\ surrogate._model.kind = "forest"
           /\ surrogate._model.params = surrogate.model_params
           /\ surrogate._model.x = surrogate.last.args[1]
           /\ surrogate._model.y = surrogate.last.args[2]
           /\ surrogate._model.seed \in Seeds(surrogate.model_params)
           /\ surrogate.last.result = "None"

\* a second fit on data other than that of the first
C28_Witness ==
    /\ surrogate.cls = "RandomForestSurrogate"
    /\ surrogate.last.op = "fit"
    /\ surrogate.last.before.kind = "forest"
    /\ surrogate.last.before.x # surrogate.last.args[1]
    /\ surrogate._model.x = surrogate.last.args[1]

\* the columns a derived view holds
ColumnsOf(name) ==
    IF name = "measurements_parameters_comp" THEN Range(Parameters)
    ELSE Range(Targets)

\* C25: reading a derived view changes nothing of the campaign; on an empty
\* log it gives an empty table and calls no transform, otherwise it gives the
\* transform of the whole log.
C25_Views ==
    [][view' # view =>
          /\ UNCHANGED <<measurements_exp, batches_done, fits_done,
                         cached_recommendation, was_measured>>
          /\ IF measurements_exp = <<>>
             THEN view'.table = <<>> /\ ~view'.transformed
             ELSE /\ view'.transformed
                  /\ Len(view'.table) = Len(measurements_exp)
                  /\ \A i \in DOMAIN measurements_exp :
                        \A c \in ColumnsOf(view'.name) :
                           view'.table[i][c] = measurements_exp[i].vals[c]]_vars

\* a view read after a table without rows was added to an empty log
C25_Witness ==
    /\ view.name = "measurements_parameters_comp"
    /\ ~view.transformed
    /\ batches_done = 1
    /\ measurements_exp = <<>>

\* C26: fits_done > 0 only with a non-empty log, and a recommend that
\* recomputes on an empty log leaves fits_done at 0 and hands the strategy
\* empty training tables.
C26_FitsNeedData ==
    /\ fits_done > 0 => measurements_exp # <<>>
    /\ (IsRec(Last) /\ Last.invoked /\ measurements_exp = <<>>)
          => (fits_done = 0 /\ Last.train = 0)

\* a recommendation computed after a table without rows was added
C26_Witness ==
    /\ IsRec(Last) /\ Last.invoked
    /\ measurements_exp = <<>>
    /\ batches_done >= 1

\* C29: a step changes fits_done exactly when it is a recommend that
\* recomputes on a non-empty log, and then by one; so fits_done never
\* decreases and add_results, cached and rejected recommends leave it alone.
C29_FitsCount ==
    [][IF IsRec(Last') /\ Last'.invoked /\ measurements_exp # <<>>
       THEN fits_done' = fits_done + 1
       ELSE fits_done' = fits_done]_vars

\* a second fit for another batch size, no measurement added in between
C29_Witness ==
    /\ IsRec(Last) /\ Last.invoked
    /\ Prev.op = "recommend" /\ Prev.status = "ok" /\ Prev.n # Last.n
    /\ batches_done = 1
    /\ fits_done = 2

\* the fit numbers of a log: assigned ones lie in 1..fits, they do not
\* decrease along the log, and no assigned one follows an unassigned one
FitNrOrdered(rows, fits) ==
    /\ \A i \in DOMAIN rows :
          rows[i].FitNr = FitNrNaN \/ rows[i].FitNr \in 1..fits
    /\ \A i, j \in DOMAIN rows :
          (i < j /\ rows[j].FitNr # FitNrNaN)
             => (rows[i].FitNr # FitNrNaN /\ rows[i].FitNr <= rows[j].FitNr)

\* C30: after every step the fit numbers of the log are ordered in that
\* sense, and no step changes a fit number that was assigned.
C30_FitNumbers ==
    [][/\ FitNrOrdered(measurements_exp', fits_done')
       /\ \A i \in DOMAIN measurements_exp :
             measurements_exp[i].FitNr # FitNrNaN
                => measurements_exp'[i].FitNr = measurements_exp[i].FitNr]_vars

\* rows of the first and of the second fit
C30_Witness ==
    /\ fits_done = 2
    /\ Len(measurements_exp) >= 2
    /\ measurements_exp[1].FitNr = 1
    /\ measurements_exp[Len(measurements_exp)].FitNr = 2

\* the recommenders a meta-recommender has returned, in order
Returned(m) ==
    [i \in DOMAIN m.log |-> m.log[i].result]

\* C27: a selection of a sequential or streaming meta-recommender moves the
\* position forward by at most one element and never back, and a recommender
\* that was followed by another one is not returned again.
C27_ForwardOnly ==
    [][meta.config.variant \in {"sequential", "streaming"}
          => /\ meta'.step \in {meta.step, meta.step + 1}
             /\ \A i, j, k \in DOMAIN Returned(meta') :
                   (/\ i < j /\ j < k
                    /\ Returned(meta')[j] # NoRecommendersLeftError
                    /\ Returned(meta')[j] # Returned(meta')[i])
                      => Returned(meta')[k] # Returned(meta')[i]]_vars

\* an unbounded stream pulled three times
C27_Witness ==
    /\ meta.config = Streaming(<<A, B>>, TRUE)
    /\ meta.step = 3
    /\ Returned(meta) = <<A, B, B>>

\* the batch numbers of a log lie in 1..batches and do not decrease along it
BatchNrOrdered(rows, batches) ==
    /\ \A i \in DOMAIN rows : rows[i].BatchNr \in 1..batches
    /\ \A i, j \in DOMAIN rows : i < j => rows[i].BatchNr <= rows[j].BatchNr

\* C31: batches_done grows by one with every successful add_results call and
\* with no other step; after every step the batch numbers of the log are in
\* 1..batches_done and do not decrease, the rows a call appended carry the
\* new batches_done, and the batch number of an existing row is unchanged.
C31_BatchNumbers ==
    [][/\ batches_done'
             = IF IsAddOk(Last') THEN batches_done + 1 ELSE batches_done
       /\ BatchNrOrdered(measurements_exp', batches_done')
       /\ \A i \in DOMAIN measurements_exp :
             measurements_exp'[i].BatchNr = measurements_exp[i].BatchNr
       /\ \A i \in DOMAIN measurements_exp' :
             i > Len(measurements_exp)
                => measurements_exp'[i].BatchNr = batches_done']_vars

\* a second batch of two rows behind a first one
C31_Witness ==
    /\ batches_done = 2
    /\ Len(measurements_exp) >= 3
    /\ measurements_exp[1].BatchNr = 1
    /\ measurements_exp[Len(measurements_exp) - 1].BatchNr = 2
    /\ measurements_exp[Len(measurements_exp)].BatchNr = 2

\* C32: whatever the caller does with the tables it was handed, the cached
\* recommendation keeps the placeholder in every target cell.
C32_CacheIsolated ==
    Targets_of(cached_recommendation) \subseteq {Placeholder}

\* C33: a recommend call leaves batches_done, the number and order of the log
\* rows, their values and batch numbers and every assigned fit number as they
\* were, and a call answered from the cache writes nothing of the campaign.
C33_RecommendFrame ==
    [][Last'.op = "recommend" =>
          /\ batches_done' = batches_done
          /\ Len(measurements_exp') = Len(measurements_exp)
          /\ \A i \in DOMAIN measurements_exp :
                /\ measurements_exp'[i].vals = measurements_exp[i].vals
                /\ measurements_exp'[i].BatchNr = measurements_exp[i].BatchNr
                /\ measurements_exp[i].FitNr # FitNrNaN
                      => measurements_exp'[i].FitNr = measurements_exp[i].FitNr
          /\ (IsRec(Last') /\ ~Last'.invoked) => UNCHANGED campaign]_vars

\* a recomputation that numbered the waiting rows and kept the numbered ones
C33_Witness ==
    /\ IsRec(Last) /\ Last.invoked
    /\ Len(measurements_exp) >= 2
    /\ measurements_exp[1].FitNr = 1
    /\ measurements_exp[Len(measurements_exp)].FitNr = 2

====
